---- MODULE Spec2Model ----
(***************************************************************************)
(* Model of src/index.js: exact rational arithmetic on BigInt, Lagrange    *)
(* interpolation at x = 0, enumeration of k-subsets, and the majority vote *)
(* of recoverSecretFromJSON, together with processFile of the first part   *)
(* of the file.  A testcase is given by its share entries in Object.keys   *)
(* order, each entry carrying the x of its key and the y that              *)
(* parseBigIntFromBase returns for its value string.                       *)
(*                                                                         *)
(* Spec      recoverSecretFromJSON and processFile on canonical keys 1..   *)
(* SpecLine  the same on four keys from 0 on, three shares on y = 2x + 3   *)
(* SpecDup   the same with one more key whose x may repeat another ("01")  *)
(* SpecRat   the constructor and the operations of class Rational          *)
(* SpecPoly  both interpolation routines on samples of a polynomial        *)
(***************************************************************************)
EXTENDS Integers, Sequences, FiniteSets, TLC

\* ---------------------------------------------------------------- bounds
\* largest x of a share key in the general specification
MaxX == 4
\* largest decoded y in the general specification
MaxY == 2
\* largest x of a share key in the specification with a repeated x
MaxDupX == 2
\* largest decoded y in the specification with a repeated x
MaxDupY == 1
\* largest x in the specification of the line y = 2x + 3
MaxLineX == 4
\* largest y of the wrong share in the specification of the line
MaxLineY == 11
\* largest |argument| handed to the Rational constructor
MaxArg == 3
\* largest |num| and den of the operands of the arithmetic specification
MaxMag == 4
\* largest number of points of one interpolation
MaxK == 3
\* largest x of a sampled point
MaxPX == 3
\* largest |coefficient| of a sampled polynomial
MaxCoef == 1

VARIABLES pc, testcase, k, shares, allCombos, ci, frequency, comboTrace, result,
          ra, rb, rop, rerr, poly, pts, interp

recVars == <<pc, testcase, k, shares, allCombos, ci, frequency, comboTrace, result>>
ratVars == <<ra, rb, rop, rerr>>
polyVars == <<poly, pts, interp>>
vars == <<pc, testcase, k, shares, allCombos, ci, frequency, comboTrace, result,
          ra, rb, rop, rerr, poly, pts, interp>>

\* ------------------------------------------------------------ exceptions
\* a thrown Error is the record [err |-> message]; it ends every loop it crosses
Throw(msg) == [err |-> msg]
IsErr(v) == "err" \in DOMAIN v

\* ------------------------------------------------------ BigInt arithmetic
Abs(a) == IF a < 0 THEN -a ELSE a
\* BigInt "/" truncates toward zero
BigIntDiv(a, b) ==
  IF (a >= 0) = (b > 0) THEN Abs(a) \div Abs(b) ELSE -(Abs(a) \div Abs(b))
\* BigInt "%" takes the sign of the dividend
BigIntRem(a, b) == a - b * BigIntDiv(a, b)

RECURSIVE gcdLoop(_, _)
gcdLoop(a, b) == IF b = 0 THEN a ELSE gcdLoop(b, BigIntRem(a, b))

gcdBigInt(a, b) == gcdLoop(Abs(a), Abs(b))

\* ------------------------------------------------------- BigInt <-> string
\* a string is the sequence of its characters
DigitChars == <<"0", "1", "2", "3", "4", "5", "6", "7", "8", "9">>
DigitChar(d) == DigitChars[d + 1]
DigitValue(ch) == CHOOSE d \in 0..9 : DigitChars[d + 1] = ch

RECURSIVE NatToString(_)
NatToString(n) ==
  IF n < 10 THEN <<DigitChar(n)>>
  ELSE NatToString(n \div 10) \o <<DigitChar(n % 10)>>

BigIntToString(n) == IF n < 0 THEN <<"-">> \o NatToString(-n) ELSE NatToString(n)

RECURSIVE ParseDigits(_, _)
ParseDigits(s, acc) ==
  IF s = <<>> THEN acc ELSE ParseDigits(Tail(s), acc * 10 + DigitValue(Head(s)))

\* BigInt(str) of a decimal string with an optional leading minus
StringToBigInt(s) ==
  IF s # <<>> /\ Head(s) = "-" THEN -ParseDigits(Tail(s), 0) ELSE ParseDigits(s, 0)

RECURSIVE SplitLoop(_, _, _)
SplitLoop(s, cur, parts) ==
  IF s = <<>> THEN Append(parts, cur)
  ELSE IF Head(s) = "/" THEN SplitLoop(Tail(s), <<>>, Append(parts, cur))
  ELSE SplitLoop(Tail(s), Append(cur, Head(s)), parts)

\* str.split('/')
SplitSlash(s) == SplitLoop(s, <<>>, <<>>)

\* ------------------------------------------------------ class Rational
\* the sign of the denominator left as given
NormalizeSign_kept(num, den) == <<num, den>>

NormalizeSign(num, den) == IF den < 0 THEN <<-num, -den>> ELSE <<num, den>>

Rational(num, den) ==
  IF den = 0 THEN Throw("Denominator zero")
  ELSE LET s == NormalizeSign(num, den)
           g == gcdBigInt(s[1], s[2])
       IN [num |-> BigIntDiv(s[1], g), den |-> BigIntDiv(s[2], g)]

Rational_zero == Rational(0, 1)
Rational_fromBigInt(b) == Rational(b, 1)

Rational_add(this, other) ==
  Rational(this.num * other.den + other.num * this.den, this.den * other.den)
Rational_sub(this, other) ==
  Rational(this.num * other.den - other.num * this.den, this.den * other.den)
Rational_mul(this, other) ==
  Rational(this.num * other.num, this.den * other.den)
Rational_div(this, other) ==
  IF other.num = 0 THEN Throw("Divide by zero")
  ELSE Rational(this.num * other.den, this.den * other.num)
Rational_neg(this) == Rational(-this.num, this.den)

\* null is modelled by the record [null |-> TRUE]
Null == [null |-> TRUE]
IsNull(v) == "null" \in DOMAIN v

\* the quotient returned whether or not the division is exact
toIntegerIfExact_truncating(this) == [int |-> BigIntDiv(this.num, this.den)]

toIntegerIfExact(this) ==
  IF this.den = 1 THEN [int |-> this.num]
  ELSE IF BigIntRem(this.num, this.den) = 0
       THEN [int |-> BigIntDiv(this.num, this.den)]
       ELSE Null

Rational_toString(this) ==
  IF this.den = 1 THEN BigIntToString(this.num)
  ELSE BigIntToString(this.num) \o <<"/">> \o BigIntToString(this.den)

\* ------------------------------------------------------ class Fraction
bigGcd(a, b) == gcdLoop(Abs(a), Abs(b))

Fraction(numer, denom) ==
  IF denom = 0 THEN Throw("Denominator cannot be 0")
  ELSE LET n1 == IF denom < 0 THEN -numer ELSE numer
           d1 == IF denom < 0 THEN -denom ELSE denom
           g == bigGcd(n1, d1)
       IN [n |-> BigIntDiv(n1, g), d |-> BigIntDiv(d1, g)]

Fraction_fromBigInt(n) == Fraction(n, 1)
Fraction_add(this, other) ==
  Fraction(this.n * other.d + other.n * this.d, this.d * other.d)
Fraction_mul(this, other) == Fraction(this.n * other.n, this.d * other.d)

asIntegerIfWhole(this) ==
  IF this.d = 1 THEN [whole |-> TRUE, value |-> this.n]
  ELSE IF BigIntRem(this.n, this.d) = 0
       THEN [whole |-> TRUE, value |-> BigIntDiv(this.n, this.d)]
       ELSE [whole |-> FALSE, value |-> 0]

Fraction_toString(this) ==
  IF this.d = 1 THEN BigIntToString(this.n)
  ELSE BigIntToString(this.n) \o <<"/">> \o BigIntToString(this.d)

\* ------------------------------------------- lagrangeAtZeroFraction
RECURSIVE LiLoop(_, _, _, _)
LiLoop(pointsSubset, i, j, Li) ==
  IF j > Len(pointsSubset) THEN Li
  ELSE IF j = i THEN LiLoop(pointsSubset, i, j + 1, Li)
  ELSE LET xi == pointsSubset[i].x
           xj == pointsSubset[j].x
           f == Fraction(-xj, xi - xj)
       IN IF IsErr(f) THEN f
          ELSE LiLoop(pointsSubset, i, j + 1, Fraction_mul(Li, f))

RECURSIVE resLoop(_, _, _)
resLoop(pointsSubset, i, res) ==
  IF i > Len(pointsSubset) THEN res
  ELSE LET yi == Fraction_fromBigInt(pointsSubset[i].y)
           Li == LiLoop(pointsSubset, i, 1, Fraction(1, 1))
       IN IF IsErr(Li) THEN Li
          ELSE resLoop(pointsSubset, i + 1, Fraction_add(res, Fraction_mul(yi, Li)))

lagrangeAtZeroFraction(pointsSubset) == resLoop(pointsSubset, 1, Fraction(0, 1))

\* ------------------------------------------------ reconstructAtOrigin
\* the point skipped by its x instead of its index
skipSelf_byX(dataSubset, i, j) == dataSubset[j].x = dataSubset[i].x

\* "if (j === i) continue"
skipSelf(dataSubset, i, j) == j = i

\* the numerator without its minus sign
numerator_unsigned(xOther) == Rational(xOther, 1)

numerator(xOther) == Rational(-xOther, 1)
denominator(xPos, xOther) == Rational(xPos - xOther, 1)

RECURSIVE basisLoop(_, _, _, _)
basisLoop(dataSubset, i, j, basisPoly) ==
  IF j > Len(dataSubset) THEN basisPoly
  ELSE IF skipSelf(dataSubset, i, j) THEN basisLoop(dataSubset, i, j + 1, basisPoly)
  ELSE LET xPos == dataSubset[i].x
           xOther == dataSubset[j].x
           q == Rational_div(numerator(xOther), denominator(xPos, xOther))
       IN IF IsErr(q) THEN q
          ELSE basisLoop(dataSubset, i, j + 1, Rational_mul(basisPoly, q))

RECURSIVE totalLoop(_, _, _)
totalLoop(dataSubset, i, total) ==
  IF i > Len(dataSubset) THEN total
  ELSE LET yVal == Rational_fromBigInt(dataSubset[i].y)
           basisPoly == basisLoop(dataSubset, i, 1, Rational_fromBigInt(1))
       IN IF IsErr(basisPoly) THEN basisPoly
          ELSE totalLoop(dataSubset, i + 1,
                         Rational_add(total, Rational_mul(yVal, basisPoly)))

reconstructAtOrigin(dataSubset) == totalLoop(dataSubset, 1, Rational_zero)

\* ------------------------------------------------------- chooseCombos
\* arr holds arr[0..n-1] at positions 1..n; start and i are the code's 0-based
\* indices
\* the loop stopped one index early
loopBound_short(n, kk, chosenLen) == n - (kk - chosenLen) - 1

loopBound(n, kk, chosenLen) == n - (kk - chosenLen)

RECURSIVE backtrack(_, _, _, _)
RECURSIVE backtrackFor(_, _, _, _)
backtrack(arr, kk, start, chosen) ==
  IF Len(chosen) = kk THEN <<chosen>>
  ELSE backtrackFor(arr, kk, start, chosen)
backtrackFor(arr, kk, i, chosen) ==
  IF i <= loopBound(Len(arr), kk, Len(chosen))
  THEN backtrack(arr, kk, i + 1, Append(chosen, arr[i + 1]))
         \o backtrackFor(arr, kk, i + 1, chosen)
  ELSE <<>>

chooseCombos(arr, kk) == backtrack(arr, kk, 0, <<>>)

\* ------------------------------------------------------------- Array.sort
\* the comparator of both sorts orders by x only; Array.prototype.sort is stable
RECURSIVE CountLE(_, _)
CountLE(sorted, e) ==
  IF sorted = <<>> \/ Head(sorted).x > e.x THEN 0 ELSE 1 + CountLE(Tail(sorted), e)

InsertStable(sorted, e) ==
  LET p == CountLE(sorted, e)
  IN SubSeq(sorted, 1, p) \o <<e>> \o SubSeq(sorted, p + 1, Len(sorted))

RECURSIVE sortByX(_)
sortByX(s) ==
  IF s = <<>> THEN <<>>
  ELSE InsertStable(sortByX(SubSeq(s, 1, Len(s) - 1)), s[Len(s)])

\* ------------------------------------------------------------------- Map
\* a Map is the sequence of its entries in insertion order
RECURSIVE MapIndex(_, _, _)
MapIndex(m, key, i) ==
  IF i > Len(m) THEN 0 ELSE IF m[i].key = key THEN i ELSE MapIndex(m, key, i + 1)
MapHas(m, key) == MapIndex(m, key, 1) # 0
\* the value of key, or dflt for "undefined"
MapGetOr(m, key, dflt) ==
  LET i == MapIndex(m, key, 1) IN IF i = 0 THEN dflt ELSE m[i].val
MapSet(m, key, val) ==
  LET i == MapIndex(m, key, 1)
  IN IF i = 0 THEN Append(m, [key |-> key, val |-> val])
     ELSE [m EXCEPT ![i] = [key |-> key, val |-> val]]

\* --------------------------------------------------- recoverSecretFromJSON
\* the count compared one off
notEnough_offByOne(len, kk) == len + 1 < kk

\* "shares.length < k"
notEnough(len, kk) == len < kk

\* "`${candidate.num.toString()}/${candidate.den.toString()}`"
candidateKey(candidate) ==
  BigIntToString(candidate.num) \o <<"/">> \o BigIntToString(candidate.den)

\* the count set to one instead of incremented
nextCount_reset(freq, key) == 1

\* "(frequency.get(key) || 0) + 1"
nextCount(freq, key) == MapGetOr(freq, key, 0) + 1

\* the leader replaced on an equal count too
beatsTop_orEqual(v, topCount) == v >= topCount

\* the leader replaced by every entry
beatsTop_always(v, topCount) == TRUE

\* "v > topCount"
beatsTop(v, topCount) == v > topCount

\* the scan of frequency.entries(); the empty string stands for topKey = null,
\* which "!topKey" does not tell from it
RECURSIVE topScan(_, _, _, _)
topScan(freq, i, topKey, topCount) ==
  IF i > Len(freq) THEN [topKey |-> topKey, topCount |-> topCount]
  ELSE IF beatsTop(freq[i].val, topCount)
       THEN topScan(freq, i + 1, freq[i].key, freq[i].val)
       ELSE topScan(freq, i + 1, topKey, topCount)

indicesOf(sh) == [i \in 1..Len(sh) |-> i - 1]
subsetOf(sh, c) == [m \in 1..Len(c) |-> sh[c[m] + 1]]

\* lines 299-305: the secret of the winning key
secretOf(topKey, trace) ==
  LET parts == SplitSlash(topKey)
      secretFrac == Rational(StringToBigInt(parts[1]), StringToBigInt(parts[2]))
      intValue == toIntegerIfExact(secretFrac)
  IN IF IsNull(intValue)
     THEN [kind |-> "secretFraction", secretFraction |-> secretFrac,
           subset |-> MapGetOr(trace, topKey, <<>>)]
     ELSE [kind |-> "secret", secret |-> intValue.int,
           subset |-> MapGetOr(trace, topKey, <<>>)]

NoResult == [kind |-> "none"]
ErrorResult(msg) == [kind |-> "error", message |-> msg]

\* lines 257-275: the shares are collected and sorted, the count is checked and
\* the combinations are enumerated
Start ==
  /\ pc = "start"
  /\ LET sorted == sortByX(testcase)
     IN /\ shares' = sorted
        /\ IF notEnough(Len(sorted), k)
           THEN /\ pc' = "error"
                /\ result' = ErrorResult("Not enough shares in input")
                /\ allCombos' = <<>>
           ELSE /\ pc' = "loop"
                /\ result' = result
                /\ allCombos' = chooseCombos(indicesOf(sorted), k)
  /\ ci' = 0
  /\ frequency' = <<>>
  /\ comboTrace' = <<>>
  /\ UNCHANGED <<testcase, k>>
  /\ UNCHANGED ratVars
  /\ UNCHANGED polyVars

\* lines 280-286: one iteration of "for (const c of allCombos)"
Tally ==
  /\ pc = "loop"
  /\ ci < Len(allCombos)
  /\ \E subset \in {subsetOf(shares, allCombos[ci + 1])} :
       \E candidate \in {reconstructAtOrigin(subset)} :
         IF IsErr(candidate)
         THEN /\ pc' = "error"
              /\ result' = ErrorResult(candidate.err)
              /\ UNCHANGED <<ci, frequency, comboTrace>>
         ELSE \E key \in {candidateKey(candidate)} :
                /\ frequency' = MapSet(frequency, key, nextCount(frequency, key))
                /\ comboTrace' = IF MapHas(comboTrace, key) THEN comboTrace
                                 ELSE MapSet(comboTrace, key, subset)
                /\ ci' = ci + 1
                /\ UNCHANGED <<pc, result>>
  /\ UNCHANGED <<testcase, k, shares, allCombos>>
  /\ UNCHANGED ratVars
  /\ UNCHANGED polyVars

\* lines 288-305: the leader of the tally is chosen and returned
Select ==
  /\ pc = "loop"
  /\ ci = Len(allCombos)
  /\ LET top == topScan(frequency, 1, <<>>, -1)
     IN IF top.topKey = <<>>
        THEN /\ pc' = "error"
             /\ result' = ErrorResult("Could not determine consensus secret")
        ELSE /\ pc' = "done"
             /\ result' = secretOf(top.topKey, comboTrace)
  /\ UNCHANGED <<testcase, k, shares, allCombos, ci, frequency, comboTrace>>
  /\ UNCHANGED ratVars
  /\ UNCHANGED polyVars

\* arr.slice(0, to): the end is clamped to the length
slice0(arr, to) == SubSeq(arr, 1, IF to > Len(arr) THEN Len(arr) ELSE to)

\* ------------------------------------------------------------ processFile
\* lines 88-118, run on the same entries; the message of its not-enough error
\* is kept without the file name and the two counts it interpolates
processFile(entries, kk) ==
  LET points == sortByX(entries)
  IN IF notEnough(Len(points), kk) THEN ErrorResult("Not enough points")
     ELSE LET subset == slice0(points, kk)
              cFrac == lagrangeAtZeroFraction(subset)
          IN IF IsErr(cFrac) THEN ErrorResult(cFrac.err)
             ELSE LET cCheck == asIntegerIfWhole(cFrac)
                  IN IF cCheck.whole
                     THEN [kind |-> "text", text |-> BigIntToString(cCheck.value)]
                     ELSE [kind |-> "text", text |-> Fraction_toString(cFrac)]

ProcessFile ==
  /\ pc = "start"
  /\ result' = processFile(testcase, k)
  /\ pc' = IF result'.kind = "error" THEN "pfError" ELSE "pfDone"
  /\ UNCHANGED <<testcase, k, shares, allCombos, ci, frequency, comboTrace>>
  /\ UNCHANGED ratVars
  /\ UNCHANGED polyVars

\* ---------------------------------------------------------------- inputs
RECURSIVE AscSeq(_, _)
\* the entries of f (x -> y) with x in D, by ascending x: the order Object.keys
\* gives the canonical integer keys
AscSeq(f, D) ==
  IF D = {} THEN <<>>
  ELSE LET m == CHOOSE x \in D : \A z \in D : x <= z
       IN << [x |-> m, y |-> f[m]] >> \o AscSeq(f, D \ {m})

CanonicalEntries(X, Y) ==
  { AscSeq(f, DOMAIN f) : f \in UNION { [D -> Y] : D \in SUBSET X } }

\* at most one key that is not a canonical integer ("01"): Object.keys lists it
\* after the canonical ones, and its x may repeat the x of another key
ExtraEntries(X, Y) == {<<>>} \cup { <<[x |-> x, y |-> y]>> : x \in X, y \in Y }

IdleRat ==
  /\ ra = Rational_zero
  /\ rb = Rational_zero
  /\ rop = "none"
  /\ rerr = ""
IdlePoly ==
  /\ poly = <<>>
  /\ pts = <<>>
  /\ interp = NoResult
IdleRec ==
  /\ pc = "idle"
  /\ testcase = <<>>
  /\ k = 0
  /\ shares = <<>>
  /\ allCombos = <<>>
  /\ ci = 0
  /\ frequency = <<>>
  /\ comboTrace = <<>>
  /\ result = NoResult

RecStart ==
  /\ pc = "start"
  /\ shares = <<>>
  /\ allCombos = <<>>
  /\ ci = 0
  /\ frequency = <<>>
  /\ comboTrace = <<>>
  /\ result = NoResult

\* canonical integer keys from 1 on only: the x are pairwise distinct and ascending
Init ==
  /\ testcase \in CanonicalEntries(1..MaxX, 0..MaxY)
  /\ k \in 0..(Len(testcase) + 1)
  /\ RecStart
  /\ IdleRat
  /\ IdlePoly

Next == Start \/ Tally \/ Select \/ ProcessFile

Spec == Init /\ [][Next]_vars

\* ------------------------------------------- the line y = 2x + 3, k = 2
OnLine(e) == e.y = 2 * e.x + 3

\* four canonical keys, three of them on the line and one with another y
LineEntries ==
  { AscSeq(f, DOMAIN f) :
      f \in { g \in UNION { [D -> 0..MaxLineY] :
                              D \in { D \in SUBSET (0..MaxLineX) : Cardinality(D) = 4 } } :
                Cardinality({ x \in DOMAIN g : g[x] # 2 * x + 3 }) = 1 } }

InitLine ==
  /\ testcase \in LineEntries
  /\ k = 2
  /\ RecStart
  /\ IdleRat
  /\ IdlePoly

SpecLine == InitLine /\ [][Next]_vars

\* ------------------------------------------------- keys with a repeated x
InitDup ==
  /\ \E c \in CanonicalEntries(0..MaxDupX, 0..MaxDupY),
        e \in ExtraEntries(0..MaxDupX, 0..MaxDupY) : testcase = c \o e
  /\ k \in 0..(Len(testcase) + 1)
  /\ RecStart
  /\ IdleRat
  /\ IdlePoly

SpecDup == InitDup /\ [][Next]_vars

\* ------------------------------------------------ Rational arithmetic
InMag(r) == Abs(r.num) <= MaxMag /\ r.den <= MaxMag

\* In each action the value returned becomes ra and the former ra becomes rb; a
\* throw leaves both and records the message.  The arithmetic is applied to
\* operands within MaxMag; its result is kept whatever its size.
\* new Rational(n, d)
RatNew ==
  \E n \in -MaxArg..MaxArg, d \in -MaxArg..MaxArg :
  LET r == Rational(n, d)
  IN /\ rop' = "new"
     /\ IF IsErr(r)
        THEN /\ rerr' = r.err
             /\ UNCHANGED <<ra, rb>>
        ELSE /\ rerr' = ""
             /\ ra' = r
             /\ rb' = ra
     /\ UNCHANGED recVars
     /\ UNCHANGED polyVars

\* ra.add(rb)
RatAdd ==
  LET r == Rational_add(ra, rb)
  IN /\ InMag(ra)
     /\ InMag(rb)
     /\ rop' = "add"
     /\ IF IsErr(r)
        THEN /\ rerr' = r.err
             /\ UNCHANGED <<ra, rb>>
        ELSE /\ rerr' = ""
             /\ ra' = r
             /\ rb' = ra
     /\ UNCHANGED recVars
     /\ UNCHANGED polyVars

\* ra.sub(rb)
RatSub ==
  LET r == Rational_sub(ra, rb)
  IN /\ InMag(ra)
     /\ InMag(rb)
     /\ rop' = "sub"
     /\ IF IsErr(r)
        THEN /\ rerr' = r.err
             /\ UNCHANGED <<ra, rb>>
        ELSE /\ rerr' = ""
             /\ ra' = r
             /\ rb' = ra
     /\ UNCHANGED recVars
     /\ UNCHANGED polyVars

\* ra.mul(rb)
RatMul ==
  LET r == Rational_mul(ra, rb)
  IN /\ InMag(ra)
     /\ InMag(rb)
     /\ rop' = "mul"
     /\ IF IsErr(r)
        THEN /\ rerr' = r.err
             /\ UNCHANGED <<ra, rb>>
        ELSE /\ rerr' = ""
             /\ ra' = r
             /\ rb' = ra
     /\ UNCHANGED recVars
     /\ UNCHANGED polyVars

\* ra.div(rb)
RatDiv ==
  LET r == Rational_div(ra, rb)
  IN /\ InMag(ra)
     /\ InMag(rb)
     /\ rop' = "div"
     /\ IF IsErr(r)
        THEN /\ rerr' = r.err
             /\ UNCHANGED <<ra, rb>>
        ELSE /\ rerr' = ""
             /\ ra' = r
             /\ rb' = ra
     /\ UNCHANGED recVars
     /\ UNCHANGED polyVars

\* ra.neg()
RatNeg ==
  LET r == Rational_neg(ra)
  IN /\ InMag(ra)
     /\ rop' = "neg"
     /\ IF IsErr(r)
        THEN /\ rerr' = r.err
             /\ UNCHANGED <<ra, rb>>
        ELSE /\ rerr' = ""
             /\ ra' = r
             /\ rb' = ra
     /\ UNCHANGED recVars
     /\ UNCHANGED polyVars

InitRat ==
  /\ IdleRec
  /\ IdleRat
  /\ IdlePoly

NextRat == RatNew \/ RatAdd \/ RatSub \/ RatMul \/ RatDiv \/ RatNeg

SpecRat == InitRat /\ [][NextRat]_vars

\* ---------------------------------------------- interpolation of samples
RECURSIVE PolyEval(_, _, _)
\* c[1] + c[2] x + ... by Horner's rule from coefficient i on
PolyEval(c, i, x) == IF i > Len(c) THEN 0 ELSE c[i] + x * PolyEval(c, i + 1, x)

\* the points of polynomial c at the x values of xs, in the order of xs
Samples(c, xs) == [i \in 1..Len(xs) |-> [x |-> xs[i], y |-> PolyEval(c, 1, xs[i])]]

DistinctSeqs(n, S) ==
  { s \in [1..n -> S] : \A i \in 1..n, j \in 1..n : i # j => s[i] # s[j] }

InitPoly ==
  /\ \E n \in 1..MaxK :
       /\ poly \in [1..n -> -MaxCoef..MaxCoef]
       /\ \E xs \in DistinctSeqs(n, 0..MaxPX) : pts = Samples(poly, xs)
  /\ interp = NoResult
  /\ IdleRec
  /\ IdleRat

\* both interpolation routines run on the same points
Interpolate ==
  /\ interp = NoResult
  /\ interp' = [kind |-> "interp",
                rec |-> reconstructAtOrigin(pts),
                lag |-> lagrangeAtZeroFraction(pts)]
  /\ UNCHANGED <<poly, pts>>
  /\ UNCHANGED recVars
  /\ UNCHANGED ratVars

NextPoly == Interpolate

SpecPoly == InitPoly /\ [][NextPoly]_vars

\* ============================================================ properties
DistinctX(s) == \A i \in 1..Len(s), j \in 1..Len(s) : i # j => s[i].x # s[j].x
SameNumber(a, b) == a.num * b.den = b.num * a.den
Coprime(a, b) == \A g \in 2..Abs(b) : ~(a % g = 0 /\ b % g = 0)
\* whether the value returned by recoverSecretFromJSON is the number r
ResultIs(r) ==
  IF result.kind = "secret" THEN r.den * result.secret = r.num
  ELSE IF result.kind = "secretFraction" THEN SameNumber(result.secretFraction, r)
  ELSE FALSE
ComboSubset(i) == subsetOf(shares, allCombos[i])
RECURSIVE CandidatesUpTo(_)
CandidatesUpTo(n) ==
  IF n = 0 THEN <<>>
  ELSE Append(CandidatesUpTo(n - 1), reconstructAtOrigin(ComboSubset(n)))
\* the interpolated values of all combinations, in enumeration order
Candidates == CandidatesUpTo(Len(allCombos))
\* how many of the first p values equal value i
CountUpTo(cs, i, p) == Cardinality({ j \in 1..p : SameNumber(cs[j], cs[i]) })
\* the highest final count
MaxCount(cs) ==
  CHOOSE m \in 1..Len(cs) :
    /\ \E i \in 1..Len(cs) : CountUpTo(cs, i, Len(cs)) = m
    /\ \A i \in 1..Len(cs) : CountUpTo(cs, i, Len(cs)) <= m
\* the step at which a value's running count first equals the final maximum mx
FirstToReach(cs, mx) ==
  CHOOSE p \in 1..Len(cs) :
    /\ CountUpTo(cs, p, p) = mx
    /\ \A q \in 1..(p - 1) : CountUpTo(cs, q, q) # mx
\* the first step that produces a value whose final count is the maximum mx
FirstSeen(cs, mx) ==
  CHOOSE p \in 1..Len(cs) :
    /\ CountUpTo(cs, p, Len(cs)) = mx
    /\ \A q \in 1..(p - 1) : CountUpTo(cs, q, Len(cs)) # mx
Tied(cs, mx) ==
  \E i \in 1..Len(cs), j \in 1..Len(cs) :
    /\ CountUpTo(cs, i, Len(cs)) = mx
    /\ CountUpTo(cs, j, Len(cs)) = mx
    /\ ~SameNumber(cs[i], cs[j])

\* ------------------------------------------------------------------- C1
WrongX == (CHOOSE i \in 1..Len(testcase) : ~OnLine(testcase[i]))

\* C1 as stated: with three shares on y = 2x + 3, one share off it and k = 2,
\* recoverSecretFromJSON returns the integer 3 wherever the wrong share is.
C1_Original ==
  /\ pc # "error"
  /\ pc = "done" => (result.kind = "secret" /\ result.secret = 3)

\* C1 amended: the same, provided the x of the wrong share is not 0.
C1_WrongShareNotAtZero ==
  /\ pc # "error"
  /\ (pc = "done" /\ testcase[WrongX].x # 0)
       => (result.kind = "secret" /\ result.secret = 3)

C1_Witness ==
  /\ pc = "done"
  /\ testcase[WrongX].x # 0
  /\ testcase[1].x = 0
  /\ WrongX = 3
  /\ result.kind = "secret"
  /\ result.secret = 3

\* ------------------------------------------------------------------- C2
\* C2 as stated: when several values end with the highest count, the value
\* returned is the one whose running count reached that maximum first.
C2_Original ==
  (pc = "done" /\ k >= 1) =>
    \A cs \in {Candidates} : \A mx \in {MaxCount(cs)} :
      Tied(cs, mx) => ResultIs(cs[FirstToReach(cs, mx)])

\* C2 amended: when several values end with the highest count, the value
\* returned is the one among them that was produced first in enumeration
\* order, with the subset that first produced it.
C2_FirstSeenWins ==
  (pc = "done" /\ k >= 1) =>
    \A cs \in {Candidates} : \A mx \in {MaxCount(cs)} :
      Tied(cs, mx) => /\ ResultIs(cs[FirstSeen(cs, mx)])
                      /\ result.subset = ComboSubset(FirstSeen(cs, mx))

C2_Witness ==
  /\ pc = "done"
  /\ k >= 1
  /\ \E cs \in {Candidates} : \E mx \in {MaxCount(cs)} :
       /\ Tied(cs, mx)
       /\ ~SameNumber(cs[FirstToReach(cs, mx)], cs[FirstSeen(cs, mx)])
       /\ ResultIs(cs[FirstSeen(cs, mx)])

\* ------------------------------------------------------------------- C3
RECURSIVE SetToAscSeq(_)
SetToAscSeq(S) ==
  IF S = {} THEN <<>>
  ELSE LET m == CHOOSE x \in S : \A z \in S : x <= z
       IN <<m>> \o SetToAscSeq(S \ {m})
KSubsets(n, kk) == { S \in SUBSET (1..n) : Cardinality(S) = kk }
ValueOfSet(S) ==
  LET idx == SetToAscSeq(S)
  IN reconstructAtOrigin([m \in 1..Len(idx) |-> shares[idx[m]]])
RECURSIVE ValuesOfSets(_)
\* the interpolated values of the index sets of SS, one entry for each set
ValuesOfSets(SS) ==
  IF SS = {} THEN <<>>
  ELSE LET S == CHOOSE T \in SS : TRUE
       IN Append(ValuesOfSets(SS \ {S}), ValueOfSet(S))

\* C3: with pairwise distinct x and 1 <= k <= n, no value is the interpolation
\* result of more k-subsets than the value returned.
C3_ReturnedHasMaxCount ==
  (pc = "done" /\ k >= 1 /\ DistinctX(shares)) =>
    \A vals \in {ValuesOfSets(KSubsets(Len(shares), k))} :
      \A votes \in {Cardinality({ t \in 1..Len(vals) : ResultIs(vals[t]) })} :
        /\ votes >= 1
        /\ \A s \in 1..Len(vals) : CountUpTo(vals, s, Len(vals)) <= votes

C3_Witness ==
  /\ pc = "done"
  /\ k >= 2
  /\ DistinctX(shares)
  /\ ~ResultIs(Candidates[1])
  /\ Len(frequency) >= 3

\* ------------------------------------------------------------------- C5
RECURSIVE Binomial(_, _)
Binomial(n, kk) ==
  IF kk = 0 THEN 1 ELSE IF n = 0 THEN 0
  ELSE Binomial(n - 1, kk - 1) + Binomial(n - 1, kk)
\* a and b have the same length; a comes before b in lexicographic order
LexLess(a, b) ==
  \E m \in 1..Len(a) : a[m] < b[m] /\ \A q \in 1..(m - 1) : a[q] = b[q]

\* C5: for 1 <= k <= n chooseCombos over the indices 0..n-1 returns C(n,k)
\* subsets, each strictly increasing, none twice, every k-subset once, in
\* lexicographic order (an order fixed by n and k).
C5_AllSubsetsOnce ==
  (pc \in {"loop", "done"} /\ k >= 1) =>
    LET n == Len(shares)
    IN /\ Len(allCombos) = Binomial(n, k)
       /\ \A i \in 1..Len(allCombos) :
            /\ Len(allCombos[i]) = k
            /\ \A m \in 1..k : allCombos[i][m] \in 0..(n - 1)
            /\ \A m \in 1..(k - 1) : allCombos[i][m] < allCombos[i][m + 1]
       /\ \A i \in 1..Len(allCombos), j \in 1..Len(allCombos) :
            i # j => allCombos[i] # allCombos[j]
       /\ \A S \in KSubsets(n, k) :
            \E i \in 1..Len(allCombos) : allCombos[i] = [m \in 1..k |-> SetToAscSeq(S)[m] - 1]
       /\ \A i \in 1..(Len(allCombos) - 1) : LexLess(allCombos[i], allCombos[i + 1])

C5_Witness ==
  /\ pc = "loop"
  /\ Len(shares) = 4
  /\ k = 2
  /\ Len(allCombos) = 6
  /\ allCombos[6] = <<2, 3>>

\* ------------------------------------------------------------------- C7
\* C7: the integer shape is returned exactly when the winning rational is whole;
\* otherwise the rational shape with the reduced numerator and denominator; the
\* shares (1,1),(3,2) with k = 2 give 1/2.
C7_ShapeMatchesValue ==
  pc = "done" =>
    LET win == reconstructAtOrigin(result.subset)
        whole == \E m \in -Abs(win.num)..Abs(win.num) : m * win.den = win.num
    IN /\ result.kind \in {"secret", "secretFraction"}
       /\ (result.kind = "secret") = whole
       /\ result.kind = "secret" =>
            /\ result.secret * win.den = win.num
            /\ DOMAIN result = {"kind", "secret", "subset"}
       /\ result.kind = "secretFraction" =>
            /\ SameNumber(result.secretFraction, win)
            /\ result.secretFraction.den > 1
            /\ Coprime(result.secretFraction.num, result.secretFraction.den)
            /\ DOMAIN result = {"kind", "secretFraction", "subset"}
       /\ (testcase = <<[x |-> 1, y |-> 1], [x |-> 3, y |-> 2]>> /\ k = 2) =>
            (result.kind = "secretFraction"
               /\ result.secretFraction = [num |-> 1, den |-> 2])

C7_Witness ==
  /\ pc = "done"
  /\ testcase = <<[x |-> 1, y |-> 1], [x |-> 3, y |-> 2]>>
  /\ k = 2
  /\ result.kind = "secretFraction"
  /\ result.secretFraction = [num |-> 1, den |-> 2]

\* ------------------------------------------------------------------- C8
\* C8 as stated: with k = 0 recoverSecretFromJSON fails with the no-consensus
\* error; with 1 <= k <= n that error is never raised.
C8_Claim ==
  pc \in {"done", "error"} =>
    /\ k = 0 => result = ErrorResult("Could not determine consensus secret")
    /\ (k >= 1 /\ k <= Len(testcase)) =>
         result # ErrorResult("Could not determine consensus secret")

\* ------------------------------------------------------------------- C9
\* C9: with fewer shares than k, recoverSecretFromJSON and processFile fail
\* with their not-enough error, nothing is enumerated or interpolated and no
\* secret is returned.
C9_NotEnoughFails ==
  Len(testcase) < k =>
    \/ pc = "start"
    \/ /\ pc = "error"
       /\ result = ErrorResult("Not enough shares in input")
       /\ allCombos = <<>>
       /\ ci = 0
       /\ frequency = <<>>
       /\ comboTrace = <<>>
    \/ /\ pc = "pfError"
       /\ result = ErrorResult("Not enough points")

C9_Witness ==
  /\ pc = "error"
  /\ Len(testcase) = 2
  /\ k = 3
  /\ result = ErrorResult("Not enough shares in input")

\* ------------------------------------------------------------------ C10
RECURSIVE SumCounts(_)
SumCounts(m) == IF m = <<>> THEN 0 ELSE Head(m).val + SumCounts(Tail(m))

\* C10: a subset with two equal x makes reconstructAtOrigin fail with the
\* division-by-zero error; the tally holds one vote for each subset processed
\* before it and none for it, and no secret is returned.
C10_FailingSubsetHasNoVote ==
  pc \in {"loop", "done", "error"} =>
    /\ \A i \in 1..Len(allCombos) :
         ~DistinctX(ComboSubset(i)) =>
           reconstructAtOrigin(ComboSubset(i)) = Throw("Divide by zero")
    /\ SumCounts(frequency) = ci
    /\ \A i \in 1..ci : DistinctX(ComboSubset(i))
    /\ \A cs \in {CandidatesUpTo(ci)} :
         \A e \in 1..Len(frequency) :
           \E i \in 1..ci : candidateKey(cs[i]) = frequency[e].key
    /\ (\E i \in 1..Len(allCombos) : ~DistinctX(ComboSubset(i))) =>
         /\ pc # "done"
         /\ pc = "error" =>
              /\ result = ErrorResult("Divide by zero")
              /\ ci < Len(allCombos)
              /\ ~DistinctX(ComboSubset(ci + 1))

C10_Witness ==
  /\ pc = "error"
  /\ result = ErrorResult("Divide by zero")
  /\ ci >= 2
  /\ Len(frequency) >= 1

\* ------------------------------------------------------------------- C6
NormalForm(r) == r.den > 0 /\ Coprime(r.num, r.den)

\* C6: every Rational built by the constructor or returned by add, sub, mul, div
\* or neg has den > 0 and gcd(|num|, den) = 1, so two of them denote the same
\* number exactly when their fields are equal, and zero is 0/1.
C6_NormalForm ==
  /\ NormalForm(ra)
  /\ NormalForm(rb)
  /\ SameNumber(ra, rb) = (ra = rb)
  /\ ra.num = 0 => ra.den = 1
  /\ rerr \in {"", "Denominator zero", "Divide by zero"}

C6_Witness ==
  /\ rop = "div"
  /\ rerr = ""
  /\ ra = [num |-> -2, den |-> 3]
  /\ rb.den > 1

\* ------------------------------------------------------------------- C4
\* C4: for points with distinct x sampled from an integer polynomial of degree
\* below their number, reconstructAtOrigin and lagrangeAtZeroFraction return its
\* value at 0 over denominator 1, in whatever order the points are given.
C4_ExactAtZero ==
  interp.kind = "interp" =>
    /\ interp.rec = [num |-> PolyEval(poly, 1, 0), den |-> 1]
    /\ interp.lag = [n |-> PolyEval(poly, 1, 0), d |-> 1]

C4_Witness ==
  /\ interp.kind = "interp"
  /\ Len(pts) = 3
  /\ poly[3] # 0
  /\ pts[1].x > pts[2].x
  /\ pts[3].x = 0
  /\ interp.rec = [num |-> poly[1], den |-> 1]
  /\ interp.rec.num < 0
====
